---- MODULE Spec2Model ----
(***************************************************************************)
(* A model of the analysis core of phpstan-vscode:                         *)
(*   - the ignoreErrors filter (filterBaselineErrorsForFile, isIgnored),   *)
(*   - the config resolver (getPHPStanConfig, getErrorsToIgnore),          *)
(*   - the cached config reader (CachedFileReader, readConfigFile),        *)
(*   - the pro launcher (launchPro), its session handle                    *)
(*     (PHPStanProProcess) and its caller (startPro).                      *)
(* Strings are sequences of one-character strings, so that                 *)
(* String.prototype.includes is substring containment on sequences.        *)
(***************************************************************************)
EXTENDS Integers, Sequences, FiniteSets, TLC

VARIABLES
    ignoreErrors,   \* the resolved parameters.ignoreErrors list of the config
    heap,           \* heap[owner][i]: the `count` field of rule object i
                    \*   owner 0: the objects of the resolved config
                    \*   owner p: the objects pass p works on
    pass,           \* pass[p]: the state of call p of filterBaselineErrorsForFile
    disk,           \* disk[path]: the text of the config file at path
    readers,        \* readers[path]: the CachedFileReader registered for path
    reads,          \* reads[r]: call r of readConfigFile
    statChanged,    \* statChanged[path]: fs.watchFile has a change to report
    version,        \* version[path]: how often the file at path has been rewritten
    reported,       \* reported[path]: the version the last watcher callback reported
    resolver,       \* the state of the call of getErrorsToIgnore
    launch,         \* the state of the call of launchPro and of its process
    folderExists,   \* does <tmpPath>/phpstan-fixer exist
    session,        \* the PHPStanProProcess
    managers,       \* the PHPStanProErrorManagers created so far
    portFile,       \* <configDirPath>/port.json: whether it exists, and its port
    stdout,         \* what the pro process has written to its stdout so far
    startup         \* the state of the call of startPro

filterVars == <<ignoreErrors, heap, pass>>
readerVars == <<disk, version, readers, reads, statChanged, reported>>
resolverVars == <<resolver>>
launchVars == <<launch, folderExists, stdout>>
sessionVars == <<session, managers, portFile>>
startVars == <<startup>>

vars == <<ignoreErrors, heap, pass, disk, version, readers, reads, statChanged, reported,
          resolver, launch, folderExists, stdout, session, managers, portFile, startup>>

----------------------------------------------------------------------------
(* Bounds *)

MaxRules == 2       \* longest ignoreErrors list
MaxErrors == 3      \* longest list of diagnostics handed to one pass
NumPasses == 2      \* calls of filterBaselineErrorsForFile that may overlap

MaxIncludes == 2    \* config files besides the root config file
MaxReads == 2       \* calls of readConfigFile that may overlap
MaxChanges == 2     \* rewrites of a config file
MaxListeners == 3   \* listeners on one StatWatcher

MaxDisposeCalls == 2 \* calls of dispose() on one session handle
MaxHandles == 2     \* readiness markers one launch acts on
MaxChunks == 2      \* stdout chunks of one launch
MaxChunkLen == 3    \* tokens in one stdout chunk
MaxStderr == 2      \* stderr chunks of one launch

Passes == 1..NumPasses
RuleIdx == 1..MaxRules
ReadIds == 1..MaxReads
Handles == 1..MaxHandles

----------------------------------------------------------------------------
(* Strings *)

\* String.prototype.includes
Includes(target, search) ==
    \E i \in 0..(Len(target) - Len(search)) :
        SubSeq(target, i + 1, i + Len(search)) = search

\* JavaScript truthiness of a string: '' is falsy
TruthyStr(s) == Len(s) > 0

Messages == { <<"u", "v">>, <<"v">> }
FilePaths == { <<"s", "a">>, <<"t">> }

----------------------------------------------------------------------------
(* PHPStanIgnoreError *)

\* message: string | RegExp, or undefined (a field that is not there)
StrMatcher(s) == [type |-> "string", src |-> s, anchored |-> FALSE]
\* RegExp /src/ or /^src$/
ReMatcher(s, a) == [type |-> "regexp", src |-> s, anchored |-> a]
Undefined == [type |-> "undefined", src |-> <<>>, anchored |-> FALSE]

\* RegExp.prototype.test for the two shapes of pattern the model draws
RegExpTest(re, target) ==
    IF re.anchored THEN target = re.src ELSE Includes(target, re.src)

\* kind: what `typeof` / `instanceof RegExp` / `'invalid' in` tell apart
Rule(kind, message, hasCount, count, hasPath, path, hasPaths, paths) ==
    [kind |-> kind, message |-> message,
     hasCount |-> hasCount, count |-> count,
     hasPath |-> hasPath, path |-> path,
     hasPaths |-> hasPaths, paths |-> paths]

StringRule(s) == Rule("string", StrMatcher(s), FALSE, 0, FALSE, <<>>, FALSE, <<>>)
RegExpRule(s, a) == Rule("regexp", ReMatcher(s, a), FALSE, 0, FALSE, <<>>, FALSE, <<>>)
InvalidRule == Rule("invalid", Undefined, FALSE, 0, FALSE, <<>>, FALSE, <<>>)
UndefinedRule == Rule("undefined", Undefined, FALSE, 0, FALSE, <<>>, FALSE, <<>>)
\* { message, count?, path?, paths? }
Obj(message) == Rule("object", message, FALSE, 0, FALSE, <<>>, FALSE, <<>>)
WithCount(r, n) == [r EXCEPT !.hasCount = TRUE, !.count = n]
WithPath(r, p) == [r EXCEPT !.hasPath = TRUE, !.path = p]
WithPaths(r, ps) == [r EXCEPT !.hasPaths = TRUE, !.paths = ps]

U == <<"u">>
V == <<"v">>

\* Rules with a quota
QuotaRules ==
    { WithCount(Obj(StrMatcher(V)), 0),
      WithCount(Obj(StrMatcher(V)), 1),
      WithCount(Obj(StrMatcher(V)), 2),
      WithCount(Obj(ReMatcher(V, TRUE)), 1),
      WithPath(WithCount(Obj(StrMatcher(V)), 1), <<"s">>) }

\* The rules the model draws ignoreErrors lists from
RuleUniverse ==
    QuotaRules \cup
    { StringRule(U),
      RegExpRule(V, FALSE),
      InvalidRule,
      UndefinedRule,
      Obj(StrMatcher(V)),
      WithPaths(Obj(StrMatcher(V)), << <<"t">>, <<"x">> >>),
      WithPaths(WithPath(Obj(StrMatcher(V)), <<"s">>), << <<"t">> >>) }

SeqsUpTo(S, n) == UNION { [1..k -> S] : k \in 0..n }

\* Diagnostic: its message and its range (here: the position it is reported at)
Diagnostic(m, j) == [message |-> m, range |-> j]
DiagnosticLists ==
    { [j \in 1..Len(ms) |-> Diagnostic(ms[j], j)] : ms \in SeqsUpTo(Messages, MaxErrors) }

----------------------------------------------------------------------------
(* The ignoreErrors filter *)

\* matchesStringOrRegexp: "true", "false", or "throw" (matcher.test on a matcher
\* that is undefined is a TypeError)
matchesStringOrRegexp(target, matcher) ==
    IF matcher.type = "string"
    THEN (IF Includes(target, matcher.src) THEN "true" ELSE "false")
    ELSE IF matcher.type = "regexp"
    THEN (IF RegExpTest(matcher, target) THEN "true" ELSE "false")
    ELSE "throw"

\* The callback of ignoreErrors.filter: does the rule go into matchingErrors?
RuleApplies(error, originalFilePath) ==
    IF error.kind = "undefined" \/ (error.kind = "string" /\ ~TruthyStr(error.message.src))
    THEN FALSE                                        \* !error
    ELSE IF error.kind \in {"string", "regexp"}
    THEN TRUE
    ELSE IF error.kind = "invalid"
    THEN FALSE                                        \* 'invalid' in error
    ELSE IF ~(error.hasPath /\ TruthyStr(error.path))
            /\ ~(error.hasPath /\ TruthyStr(error.path))
    THEN TRUE                                         \* !error.path && !error.path
    ELSE LET paths == IF error.hasPaths THEN error.paths ELSE <<error.path>>
         IN  \E k \in 1..Len(paths) : Includes(originalFilePath, paths[k])

\* The indices of the rules the filter keeps, in order
RECURSIVE SelectedFrom(_, _, _)
SelectedFrom(rules, originalFilePath, i) ==
    IF i > Len(rules) THEN <<>>
    ELSE (IF RuleApplies(rules[i], originalFilePath) THEN <<i>> ELSE <<>>)
         \o SelectedFrom(rules, originalFilePath, i + 1)

\* A mutant of SpreadCopy: .map((err) => err), the pass works on the config's objects
SpreadCopyOmitted(err, i, p) ==
    [rule |-> err, idx |-> i, owner |-> 0]

\* .map((err) => (typeof err === 'object' ? { ...err } : err)) for rule i in pass p:
\* an object is copied into a fresh object owned by the pass; typeof a RegExp is
\* 'object' too, and the copy of a RegExp has no own enumerable property: {}
SpreadCopy(err, i, p) ==
    IF err.kind = "object" THEN [rule |-> err, idx |-> i, owner |-> p]
    ELSE IF err.kind = "regexp" THEN [rule |-> Obj(Undefined), idx |-> i, owner |-> p]
    ELSE [rule |-> err, idx |-> i, owner |-> 0]

\* matchingErrors of pass p
MatchingErrors(rules, originalFilePath, p) ==
    LET sel == SelectedFrom(rules, originalFilePath, 1)
    IN  [k \in 1..Len(sel) |-> SpreadCopy(rules[sel[k]], sel[k], p)]

\* The heap once the copies exist: a copy starts with the count of its original
HeapAfterCopy(h, me, p) ==
    [h EXCEPT ![p] = [i \in RuleIdx |->
        IF \E k \in 1..Len(me) : me[k].idx = i /\ me[k].owner = p /\ me[k].rule.hasCount
        THEN h[0][i] ELSE 0]]

\* A mutant of SkipsExhausted: the zero-count check is left out
SkipsExhaustedOmitted(e, h) == FALSE

\* typeof ignoredError.count === 'number' && !ignoredError.count
SkipsExhausted(e, h) ==
    e.rule.hasCount /\ h[e.owner][e.idx] = 0

\* A mutant of CountAfterMatch: the quota is not decremented
CountAfterMatchKept(e, h) == h

\* if (ignoredError.count) { ignoredError.count--; }
CountAfterMatch(e, h) ==
    IF e.rule.hasCount /\ h[e.owner][e.idx] # 0
    THEN [h EXCEPT ![e.owner][e.idx] = @ - 1]
    ELSE h

\* isIgnored, scanning ignoredErrors from position k on.
\* ret: "true" | "false" | "throw"; by: the index of the rule that matched
RECURSIVE isIgnored(_, _, _, _)
isIgnored(error, ignoredErrors, h, k) ==
    IF k > Len(ignoredErrors) THEN [ret |-> "false", h |-> h, by |-> 0]
    ELSE LET e == ignoredErrors[k]
             m == matchesStringOrRegexp(error.message, e.rule.message)
         IN  IF e.rule.kind \in {"string", "regexp"}
             THEN IF m = "true" THEN [ret |-> "true", h |-> h, by |-> e.idx]
                  ELSE isIgnored(error, ignoredErrors, h, k + 1)
             ELSE IF SkipsExhausted(e, h)
             THEN isIgnored(error, ignoredErrors, h, k + 1)
             ELSE IF m = "throw" THEN [ret |-> "throw", h |-> h, by |-> e.idx]
             ELSE IF m = "true"
             THEN [ret |-> "true", h |-> CountAfterMatch(e, h), by |-> e.idx]
             ELSE isIgnored(error, ignoredErrors, h, k + 1)

\* for (const error of errors) { if (!isIgnored(...)) finalErrors.push(error) }
\* from error j on; by[j]: the rule that suppressed errors[j], 0 when it was kept
RECURSIVE FilterLoop(_, _, _, _, _, _)
FilterLoop(errors, me, h, j, finalErrors, by) ==
    IF j > Len(errors)
    THEN [status |-> "ok", out |-> finalErrors, h |-> h, by |-> by]
    ELSE LET r == isIgnored(errors[j], me, h, 1)
         IN  IF r.ret = "throw"
             THEN [status |-> "threw", out |-> <<>>, h |-> r.h, by |-> by]
             ELSE FilterLoop(errors, me, r.h, j + 1,
                             IF r.ret = "true" THEN finalErrors
                                               ELSE Append(finalErrors, errors[j]),
                             Append(by, IF r.ret = "true" THEN r.by ELSE 0))

IdlePass ==
    [pc |-> "idle", errors |-> <<>>, path |-> <<>>, status |-> "none",
     out |-> <<>>, by |-> <<>>, sel |-> <<>>,
     start |-> [i \in RuleIdx |-> 0]]

\* filterBaselineErrorsForFile is called; it awaits getErrorsToIgnore
CallFilter(p, errors, originalFilePath) ==
    /\ pass[p].pc = "idle"
    /\ pass' = [pass EXCEPT ![p] =
                   [IdlePass EXCEPT !.pc = "awaiting", !.errors = errors,
                                    !.path = originalFilePath]]
    /\ UNCHANGED <<ignoreErrors, heap, readerVars, resolverVars, launchVars, sessionVars, startVars>>

\* getErrorsToIgnore has resolved: the rest of the function runs to its end
\* without yielding (filter, map, the loop over errors)
ResumeFilter(p) ==
    /\ pass[p].pc = "awaiting"
    /\ LET me == MatchingErrors(ignoreErrors, pass[p].path, p)
           h0 == HeapAfterCopy(heap, me, p)
           r  == FilterLoop(pass[p].errors, me, h0, 1, <<>>, <<>>)
       IN  /\ heap' = r.h
           /\ pass' = [pass EXCEPT ![p] =
                 [@ EXCEPT !.pc = "done", !.status = r.status, !.out = r.out,
                           !.by = r.by,
                           !.sel = [k \in 1..Len(me) |-> me[k].idx],
                           !.start = [i \in RuleIdx |->
                               IF \E k \in 1..Len(me) : me[k].idx = i /\ me[k].rule.hasCount
                               THEN h0[me[CHOOSE k \in 1..Len(me) : me[k].idx = i].owner][i]
                               ELSE 0]]]
    /\ UNCHANGED <<ignoreErrors, readerVars, resolverVars, launchVars, sessionVars, startVars>>

\* The caller has taken the result; the pass's copies are garbage
ReturnFilter(p) ==
    /\ pass[p].pc = "done"
    /\ pass' = [pass EXCEPT ![p] = IdlePass]
    /\ heap' = [heap EXCEPT ![p] = [i \in RuleIdx |-> 0]]
    /\ UNCHANGED <<ignoreErrors, readerVars, resolverVars, launchVars, sessionVars, startVars>>

----------------------------------------------------------------------------
(* Config files *)

Names == <<"r", "a", "b", "c", "d", "e">>
\* The directory the config files live in
ConfigDir == <<"p">>
\* The path of config file n; file 0 is checkConfig.configFile
CfgPath(n) == Append(ConfigDir, Names[n + 1])
CfgPaths == { CfgPath(n) : n \in 0..MaxIncludes }
ConfigFile == CfgPath(0)

\* path.dirname and path.join on paths as sequences of segments
Dirname(p) == SubSeq(p, 1, Len(p) - 1)
Join(dir, rel) == dir \o rel

\* The text of a config file is a sequence of entries: an entry of `includes`
\* (a relative path) or an entry of `parameters.ignoreErrors` (a rule)
IncludeEntry(rel) == [key |-> "includes", rel |-> rel, rule |-> UndefinedRule]
IgnoreEntry(r) == [key |-> "ignoreErrors", rel |-> <<>>, rule |-> r]

----------------------------------------------------------------------------
(* The cached config reader *)

\* _cachedValue; version: the version of the file the text was read from
Null == [null |-> TRUE, text |-> <<>>, version |-> 0]
CachedValue(text, v) == [null |-> FALSE, text |-> text, version |-> v]

\* if (this._cachedValue): null and '' are falsy
TruthyCache(c) == ~c.null /\ Len(c.text) > 0

\* listeners: the callbacks registered with fs.watchFile for the reader's path;
\* polling: fs.watchFile has started a StatWatcher for the path
NoReader ==
    [exists |-> FALSE, cachedValue |-> Null, watching |-> FALSE,
     watcher |-> FALSE, listeners |-> 0, polling |-> FALSE]

\* new CachedFileReader(filePath)
NewReader == [NoReader EXCEPT !.exists = TRUE]

\* CachedFileReader._initWatcher
InitWatcher(rd) ==
    IF rd.watching THEN rd
    ELSE [rd EXCEPT !.watcher = TRUE, !.listeners = @ + 1, !.polling = TRUE]

\* readers.has(filePath) ? readers.get(filePath) : new CachedFileReader(filePath)
ReaderFor(path) == IF readers[path].exists THEN readers[path] ELSE NewReader

IdleRead ==
    [pc |-> "idle", path |-> <<>>, text |-> <<>>, version |-> 0, reportedAtCall |-> 0,
     hit |-> FALSE]

\* readConfigFile(path) up to the first await of CachedFileReader.read: a cached
\* value is returned, otherwise the watcher is set up and fsPromises.readFile
\* is issued
ReadConfigFile(r, path) ==
    /\ reads[r].pc = "idle"
    /\ LET rd == ReaderFor(path)
       IN  IF TruthyCache(rd.cachedValue)
           THEN /\ readers' = [readers EXCEPT ![path] = rd]
                /\ reads' = [reads EXCEPT ![r] =
                      [pc |-> "returned", path |-> path, text |-> rd.cachedValue.text,
                       version |-> rd.cachedValue.version,
                       reportedAtCall |-> reported[path],
                       hit |-> TRUE]]
           ELSE /\ rd.listeners < MaxListeners
                /\ readers' = [readers EXCEPT ![path] = InitWatcher(rd)]
                /\ reads' = [reads EXCEPT ![r] =
                      [pc |-> "fetching", path |-> path, text |-> <<>>,
                       version |-> 0, reportedAtCall |-> reported[path],
                       hit |-> FALSE]]
    /\ UNCHANGED <<disk, version, statChanged, reported, filterVars, resolverVars, launchVars, sessionVars, startVars>>

\* fsPromises.readFile reads the file
DiskAccess(r) ==
    /\ reads[r].pc = "fetching"
    /\ reads' = [reads EXCEPT ![r] =
          [@ EXCEPT !.pc = "fetched", !.text = disk[reads[r].path],
                    !.version = version[reads[r].path]]]
    /\ UNCHANGED <<disk, version, readers, statChanged, reported, filterVars, resolverVars, launchVars, sessionVars, startVars>>

\* The await of readFile resumes: this._cachedValue = content; return content
ReadCompletes(r) ==
    /\ reads[r].pc = "fetched"
    /\ readers' = [readers EXCEPT ![reads[r].path].cachedValue =
                      CachedValue(reads[r].text, reads[r].version)]
    /\ reads' = [reads EXCEPT ![r].pc = "returned"]
    /\ UNCHANGED <<disk, version, statChanged, reported, filterVars, resolverVars, launchVars, sessionVars, startVars>>

\* The caller has taken the content
ReadTaken(r) ==
    /\ reads[r].pc = "returned"
    /\ reads' = [reads EXCEPT ![r] = IdleRead]
    /\ UNCHANGED <<disk, version, readers, statChanged, reported, filterVars, resolverVars, launchVars, sessionVars, startVars>>

\* The file is rewritten; a running StatWatcher will report it
FileChanges(path, text) ==
    /\ text # disk[path]
    /\ version[path] < MaxChanges
    /\ disk' = [disk EXCEPT ![path] = text]
    /\ version' = [version EXCEPT ![path] = @ + 1]
    /\ statChanged' = [statChanged EXCEPT ![path] = @ \/ readers[path].polling]
    /\ UNCHANGED <<readers, reads, reported, filterVars, resolverVars, launchVars, sessionVars, startVars>>

\* The StatWatcher reports the change: each listener runs
\* () => { this._cachedValue = null; }
WatcherFires(path) ==
    /\ statChanged[path]
    /\ statChanged' = [statChanged EXCEPT ![path] = FALSE]
    /\ IF readers[path].listeners > 0
       THEN /\ readers' = [readers EXCEPT ![path].cachedValue = Null]
            /\ reported' = [reported EXCEPT ![path] = version[path]]
       ELSE UNCHANGED <<readers, reported>>
    /\ UNCHANGED <<disk, version, reads, filterVars, resolverVars, launchVars, sessionVars, startVars>>

\* CachedFileReader.dispose
DisposeReader(path) ==
    /\ readers[path].exists
    /\ readers' = [readers EXCEPT ![path] =
          IF @.watcher THEN [@ EXCEPT !.listeners = 0, !.watcher = FALSE] ELSE @]
    /\ UNCHANGED <<disk, version, reads, statChanged, reported, filterVars, resolverVars, launchVars, sessionVars, startVars>>

----------------------------------------------------------------------------
(* The config resolver *)

\* parseNeonFile: the document of a text
ParseNeon(text) ==
    LET IsInclude(e) == e.key = "includes"
        IsIgnore(e) == e.key = "ignoreErrors"
        inc == SelectSeq(text, IsInclude)
        ign == SelectSeq(text, IsIgnore)
    IN  [hasIncludes |-> Len(inc) > 0,
         includes |-> [k \in 1..Len(inc) |-> inc[k].rel],
         hasIgnoreErrors |-> Len(ign) > 0,
         ignoreErrors |-> [k \in 1..Len(ign) |-> ign[k].rule]]

\* deepObjectJoin: sequence-valued keys are concatenated
deepObjectJoin(a, b) ==
    [hasIncludes |-> a.hasIncludes \/ b.hasIncludes,
     includes |-> a.includes \o b.includes,
     hasIgnoreErrors |-> a.hasIgnoreErrors \/ b.hasIgnoreErrors,
     ignoreErrors |-> a.ignoreErrors \o b.ignoreErrors]

\* file.parameters?.ignoreErrors ?? []
IgnoreErrorsOf(file) == IF file.hasIgnoreErrors THEN file.ignoreErrors ELSE <<>>

EmptyDoc == ParseNeon(<<>>)

IdleResolver ==
    [pc |-> "idle", entrypointFile |-> EmptyDoc, includes |-> <<>>, k |-> 0,
     result |-> <<>>, configFile |-> FALSE]

\* `await readConfigFile(path, disposables)` with nothing else running in
\* between: what it resolves to
AwaitedText(path) ==
    IF TruthyCache(ReaderFor(path).cachedValue)
    THEN ReaderFor(path).cachedValue.text
    ELSE disk[path]

\* ... and the reader registry once it has resolved
ReadersAfterAwait(path) ==
    IF TruthyCache(ReaderFor(path).cachedValue)
    THEN [readers EXCEPT ![path] = ReaderFor(path)]
    ELSE [readers EXCEPT ![path] =
             [InitWatcher(ReaderFor(path)) EXCEPT
                 !.cachedValue = CachedValue(disk[path], version[path])]]

CanAwait(path) ==
    TruthyCache(ReaderFor(path).cachedValue) \/ ReaderFor(path).listeners < MaxListeners

\* getErrorsToIgnore is called; without a config file it returns []
CallResolve(hasConfigFile) ==
    /\ resolver.pc = "idle"
    /\ resolver' = IF hasConfigFile
                   THEN [IdleResolver EXCEPT !.pc = "entrypoint", !.configFile = TRUE]
                   ELSE [IdleResolver EXCEPT !.pc = "done"]
    /\ UNCHANGED <<readerVars, filterVars, launchVars, sessionVars, startVars>>

\* getPHPStanConfig: the entrypoint file has been read and parsed. The loop
\* runs over the includes array of this document.
ReadEntrypoint ==
    /\ resolver.pc = "entrypoint"
    /\ CanAwait(ConfigFile)
    /\ LET entrypointFile == ParseNeon(AwaitedText(ConfigFile))
       IN  resolver' =
             IF entrypointFile.hasIncludes
             THEN [resolver EXCEPT !.pc = "include", !.entrypointFile = entrypointFile,
                                   !.includes = entrypointFile.includes, !.k = 1]
             ELSE [resolver EXCEPT !.pc = "done", !.entrypointFile = entrypointFile,
                                   !.result = IgnoreErrorsOf(entrypointFile)]
    /\ readers' = ReadersAfterAwait(ConfigFile)
    /\ UNCHANGED <<disk, version, reads, statChanged, reported, filterVars, launchVars, sessionVars, startVars>>

\* One round of the loop over the includes: the included file has been read,
\* parsed and joined; after the last round the function returns
ReadInclude ==
    /\ resolver.pc = "include"
    /\ LET filePath == Join(Dirname(ConfigFile), resolver.includes[resolver.k])
           entrypointFile == deepObjectJoin(resolver.entrypointFile,
                                            ParseNeon(AwaitedText(filePath)))
       IN  /\ CanAwait(filePath)
           /\ resolver' =
                IF resolver.k < Len(resolver.includes)
                THEN [resolver EXCEPT !.entrypointFile = entrypointFile, !.k = @ + 1]
                ELSE [resolver EXCEPT !.pc = "done", !.entrypointFile = entrypointFile,
                                      !.result = IgnoreErrorsOf(entrypointFile)]
           /\ readers' = ReadersAfterAwait(filePath)
    /\ UNCHANGED <<disk, version, reads, statChanged, reported, filterVars, launchVars, sessionVars, startVars>>

\* The caller has taken the list
ResolveTaken ==
    /\ resolver.pc = "done"
    /\ resolver' = IdleResolver
    /\ UNCHANGED <<readerVars, filterVars, launchVars, sessionVars, startVars>>

----------------------------------------------------------------------------
(* The session handle: PHPStanProProcess *)

\* port.json: absent (or not JSON), or { port: n }
NoPortFile == [exists |-> FALSE, port |-> 0]
PortFile(n) == [exists |-> TRUE, port |-> n]
Ports == {0, 8080, 8081}

\* getPort: portFile?.port ?? null
NullPort == [null |-> TRUE, port |-> 0]
GetPort(file) == IF file.exists THEN [null |-> FALSE, port |-> file.port] ELSE NullPort

\* if (!port): null and 0 are falsy
TruthyPort(p) == ~p.null /\ p.port # 0

\* _disposables: the indices (in managers) of the error managers pushed;
\* lookup: the getPort() call started by the constructor
NoSession ==
    [constructed |-> FALSE, lookup |-> "none", disposables |-> <<>>, disposeCalls |-> 0]

\* new PHPStanProProcess(classConfig, configDirPath): the constructor starts
\* getPort() and returns
Constructed == [NoSession EXCEPT !.constructed = TRUE, !.lookup = "pending"]

\* new PHPStanProErrorManager(classConfig, port)
ErrorManager(h, port) == [owner |-> h, port |-> port, disposed |-> FALSE]

\* A session handle is constructed (by launchPro, see GraceCheck)
Construct(h) ==
    /\ ~session[h].constructed
    /\ session' = [session EXCEPT ![h] = Constructed]
    /\ UNCHANGED <<managers, portFile, filterVars, readerVars, resolverVars, launchVars, startVars>>

\* The pro process writes, rewrites or removes port.json
PortFileChanges(file) ==
    /\ file # portFile
    /\ portFile' = file
    /\ UNCHANGED <<session, managers, filterVars, readerVars, resolverVars, launchVars, startVars>>

\* The callback of getPort().then in the constructor: _disposables afterwards
PushAfterLookup(h, port) ==
    IF TruthyPort(port)
    THEN Append(session[h].disposables, Len(managers) + 1)
    ELSE session[h].disposables

\* The getPort() of the constructor resolves and its callback runs
PortLookupDone(h) ==
    /\ session[h].lookup = "pending"
    /\ LET port == GetPort(portFile)
       IN  /\ session' = [session EXCEPT ![h] =
                 [@ EXCEPT !.lookup = "done", !.disposables = PushAfterLookup(h, port)]]
           /\ managers' = IF Len(PushAfterLookup(h, port)) > Len(session[h].disposables)
                          THEN Append(managers, ErrorManager(h, port.port))
                          ELSE managers
    /\ UNCHANGED <<portFile, filterVars, readerVars, resolverVars, launchVars, startVars>>

\* PHPStanProProcess.dispose
DisposeSession(h) ==
    /\ session[h].constructed
    /\ session[h].disposeCalls < MaxDisposeCalls
    /\ session' = [session EXCEPT ![h].disposeCalls = @ + 1]
    /\ managers' = [m \in 1..Len(managers) |->
          IF \E k \in 1..Len(session[h].disposables) : session[h].disposables[k] = m
          THEN [managers[m] EXCEPT !.disposed = TRUE]
          ELSE managers[m]]
    /\ UNCHANGED <<portFile, filterVars, readerVars, resolverVars, launchVars, startVars>>

----------------------------------------------------------------------------
(* startPro: its notifications *)

\* statusBar: the text of the last statusBarNotification sent, with the
\* progress it was built from; final: the status startPro ended the launch with;
\* setPort: the phpstanProNotification of type 'setPort'; errorMessage: the
\* message handed to showErrorMessage
NoSetPort == [sent |-> FALSE, port |-> NullPort]
NoStatus == [text |-> "none", progress |-> [done |-> 0, total |-> 0, percentage |-> 0]]

IdleStartup ==
    [pc |-> "idle", statusBar |-> NoStatus, final |-> "none", setPort |-> NoSetPort,
     requireLogin |-> FALSE, errorMessage |-> "none", hoverProvider |-> FALSE]

\* connection.sendNotification(statusBarNotification, { type: 'fallback', text })
StatusBar(su, text) == [su EXCEPT !.statusBar = [NoStatus EXCEPT !.text = text]]

\* The callback startPro hands to launchPro: it sends
\* `PHPStan Pro starting ${done}/${total} (${percentage}%)`. A launch that
\* startPro did not make has a callback that sends nothing.
OnProgress(progress) ==
    IF startup.pc = "idle" THEN startup
    ELSE [startup EXCEPT !.statusBar = [text |-> "PHPStan Pro starting N/M (P%)",
                                        progress |-> progress]]

----------------------------------------------------------------------------
(* launchPro *)

\* A stdout chunk is a sequence of tokens: a progress marker `N/M [...] P%`
\* with its three digit strings, the two halves of the readiness marker
\* 'Open your web browser at:', or other text
Progress(done, total, pct) == [t |-> "progress", done |-> done, total |-> total, pct |-> pct]
OpenA == [t |-> "openA", done |-> <<>>, total |-> <<>>, pct |-> <<>>]
OpenB == [t |-> "openB", done |-> <<>>, total |-> <<>>, pct |-> <<>>]
Text == [t |-> "text", done |-> <<>>, total |-> <<>>, pct |-> <<>>]

Tokens ==
    { Progress(<<1, 2>>, <<5, 0>>, <<2, 4>>),
      Progress(<<5, 0>>, <<5, 0>>, <<1, 0, 0>>),
      OpenA, OpenB, Text }
Chunks == SeqsUpTo(Tokens, MaxChunkLen)

\* parseInt(digits, 10)
RECURSIVE ParseInt(_)
ParseInt(digits) ==
    IF digits = <<>> THEN 0
    ELSE 10 * ParseInt(SubSeq(digits, 1, Len(digits) - 1)) + digits[Len(digits)]

\* [...line.matchAll(/(\d+)\/(\d+)\s+\[.*?\]\s+(\d+)%/g)]
ProgressMatch(line) ==
    LET IsProgress(tok) == tok.t = "progress"
    IN  SelectSeq(line, IsProgress)

\* line.includes('Open your web browser at:')
IncludesReady(line) ==
    \E i \in 1..(Len(line) - 1) : line[i] = OpenA /\ line[i + 1] = OpenB

\* A mutant of LastMatch: the first match is taken
LastMatchFirst(progressMatch) == progressMatch[1]

\* progressMatch[progressMatch.length - 1]
LastMatch(progressMatch) == progressMatch[Len(progressMatch)]

\* The argument of onProgress for the last match
ProgressOf(match) ==
    [done |-> ParseInt(match.done), total |-> ParseInt(match.total),
     percentage |-> ParseInt(match.pct)]

NoProgress == [done |-> 0, total |-> 0, percentage |-> 0]

\* What the process has written to stdout, as far as the properties need it.
\* Of the last chunk: markers, the number of progress markers in it; last, the
\* last of them; lineReady, the chunk holds the readiness marker. Of the whole
\* stream: tail, its last token; ready, the stream holds the readiness marker.
MarkerPositions(line) == { i \in 1..Len(line) : line[i].t = "progress" }
Greatest(S) == CHOOSE x \in S : \A y \in S : y <= x

EmptyStdout ==
    [markers |-> 0, last |-> Text, lineReady |-> FALSE, tail |-> Text, ready |-> FALSE]

Written(out, line) ==
    [markers |-> Cardinality(MarkerPositions(line)),
     last |-> IF MarkerPositions(line) = {} THEN Text
              ELSE line[Greatest(MarkerPositions(line))],
     lineReady |-> \E i \in 1..(Len(line) - 1) : line[i].t = "openA" /\ line[i + 1].t = "openB",
     tail |-> IF line = <<>> THEN out.tail ELSE line[Len(line)],
     ready |-> out.ready
               \/ \E i \in 1..Len(line) :
                     LET stream == <<out.tail>> \o line
                     IN  stream[i].t = "openA" /\ stream[i + 1].t = "openB"]

\* ReturnResult: kind "none" while the promise of launchPro is pending
Pending == [kind |-> "none", code |-> "", stderr |-> <<>>, handle |-> 0]
\* 'Failed to find launch configuration'
ErrNoConfig == [kind |-> "noLaunchConfig", code |-> "", stderr |-> <<>>, handle |-> 0]
\* 'Failed to launch PHPStan Pro (tmp folder does not exist)'
ErrTmpFolder == [kind |-> "tmpFolderDoesNotExist", code |-> "", stderr |-> <<>>, handle |-> 0]
\* `Failed to launch PHPStan Pro: ${error.message} - ${stderr}`
ErrLaunch(message, stderr) ==
    [kind |-> "failedToLaunch", code |-> message, stderr |-> stderr, handle |-> 0]
\* `PHPStan Pro exited with code ${code ?? '?'}: ${stderr}`
ErrExit(code, stderr) ==
    [kind |-> "exited", code |-> IF code = "null" THEN "?" ELSE code,
     stderr |-> stderr, handle |-> 0]
Success(h) == [kind |-> "success", code |-> "", stderr |-> <<>>, handle |-> h]

\* A mutant of Resolve: the last call settles the promise
ResolveLastWins(result, value) == value

\* resolve(value) on the promise of launchPro: only the first call settles it
Resolve(result, value) == IF result.kind = "none" THEN value ELSE result

\* A mutant of CheckResult: the test of folderExists is inverted
CheckResultInverted(exists, h) == IF exists THEN ErrTmpFolder ELSE Success(h)

\* if (!folderExists) resolve(error ...) else resolve(success(new PHPStanProProcess))
CheckResult(exists, h) == IF ~exists THEN ErrTmpFolder ELSE Success(h)

\* timers: the wait(100) timers not yet fired; armed: timers started so far;
\* exitCode, errorMessage: what the exit and the error event carried;
\* handles: the PHPStanProProcess objects constructed so far;
\* missing: a check found the folder missing; missingFirst: ... and the result
\* was still pending then
IdleLaunch ==
    [pc |-> "idle", onProgress |-> FALSE, result |-> Pending, stderr |-> <<>>,
     chunks |-> 0, timers |-> 0, armed |-> 0, handles |-> 0,
     progressCalls |-> 0, lastProgress |-> NoProgress,
     exited |-> FALSE, exitCode |-> "none", errored |-> FALSE, errorMessage |-> "none",
     missing |-> FALSE, missingFirst |-> FALSE]

\* launchPro is called. Without a launch configuration it returns an error,
\* otherwise the process is spawned and the handlers are registered.
Launched(onProgress, launchConfig) ==
    IF launchConfig
    THEN [launch EXCEPT !.pc = "spawned", !.onProgress = onProgress]
    ELSE [launch EXCEPT !.pc = "returned", !.onProgress = onProgress,
                        !.result = ErrNoConfig]

CallLaunch(onProgress, launchConfig) ==
    /\ launch.pc = "idle"
    /\ launch' = Launched(onProgress, launchConfig)
    /\ UNCHANGED <<folderExists, stdout, filterVars, readerVars, resolverVars, sessionVars, startVars>>

\* proc.stdout.on('data'): a chunk with a progress match and a callback calls
\* onProgress with the last match and returns; otherwise a chunk that includes
\* the readiness marker starts wait(100)
StdoutData(chunk) ==
    /\ launch.pc = "spawned"
    /\ launch.chunks < MaxChunks
    /\ LET progressMatch == ProgressMatch(chunk)
       IN  IF launch.onProgress /\ Len(progressMatch) > 0
           THEN /\ launch' = [launch EXCEPT
                     !.chunks = @ + 1,
                     !.progressCalls = @ + 1,
                     !.lastProgress = ProgressOf(LastMatch(progressMatch))]
                /\ startup' = OnProgress(ProgressOf(LastMatch(progressMatch)))
           ELSE IF IncludesReady(chunk)
           THEN /\ launch.armed < MaxHandles
                /\ launch' = [launch EXCEPT !.chunks = @ + 1, !.timers = @ + 1,
                                            !.armed = @ + 1]
                /\ UNCHANGED startup
           ELSE /\ launch' = [launch EXCEPT !.chunks = @ + 1]
                /\ UNCHANGED startup
    /\ stdout' = Written(stdout, chunk)
    /\ UNCHANGED <<folderExists, filterVars, readerVars, resolverVars, sessionVars>>

\* proc.stderr.on('data')
StderrData(chunk) ==
    /\ launch.pc = "spawned"
    /\ Len(launch.stderr) < MaxStderr
    /\ launch' = [launch EXCEPT !.stderr = Append(@, chunk)]
    /\ UNCHANGED <<folderExists, stdout, filterVars, readerVars, resolverVars, sessionVars, startVars>>

\* proc.on('error')
ProcError(message) ==
    /\ launch.pc = "spawned"
    /\ ~launch.errored
    /\ launch' = [launch EXCEPT
          !.errored = TRUE,
          !.errorMessage = message,
          !.result = Resolve(@, ErrLaunch(message, launch.stderr))]
    /\ UNCHANGED <<folderExists, stdout, filterVars, readerVars, resolverVars, sessionVars, startVars>>

\* proc.on('exit')
ProcExit(code) ==
    /\ launch.pc = "spawned"
    /\ ~launch.exited
    /\ launch' = [launch EXCEPT
          !.exited = TRUE,
          !.exitCode = code,
          !.result = Resolve(@, ErrExit(code, launch.stderr))]
    /\ UNCHANGED <<folderExists, stdout, filterVars, readerVars, resolverVars, sessionVars, startVars>>

\* wait(100) has elapsed and pathExists(configDirPath) has answered: the
\* callback resolves with the error, or constructs a session handle and
\* resolves with it
GraceCheck ==
    /\ launch.pc = "spawned"
    /\ launch.timers > 0
    /\ LET h == launch.handles + 1
       IN  /\ launch' = [launch EXCEPT
                 !.timers = @ - 1,
                 !.handles = IF folderExists THEN h ELSE @,
                 !.missing = @ \/ ~folderExists,
                 !.missingFirst = @ \/ (~folderExists /\ launch.result.kind = "none"),
                 !.result = Resolve(@, CheckResult(folderExists, h))]
           /\ session' = IF folderExists
                         THEN [session EXCEPT ![h] = Constructed]
                         ELSE session
    /\ UNCHANGED <<folderExists, stdout, managers, portFile, filterVars, readerVars, resolverVars, startVars>>

\* PHPStan creates or removes <tmpPath>/phpstan-fixer
FolderChanges ==
    /\ launch.pc = "spawned"
    /\ folderExists' = ~folderExists
    /\ UNCHANGED <<launch, stdout, filterVars, readerVars, resolverVars, sessionVars, startVars>>

----------------------------------------------------------------------------
(* startPro *)

\* startPro is called. With the extension disabled it returns at once;
\* otherwise it sends 'PHPStan Pro starting...' and calls launchPro with its
\* progress callback.
CallStartPro(enabled, launchConfig) ==
    /\ startup.pc = "idle"
    /\ launch.pc = "idle"
    /\ IF ~enabled
       THEN /\ startup' = [startup EXCEPT !.pc = "returned"]
            /\ UNCHANGED launch
       ELSE /\ startup' = [StatusBar(startup, "PHPStan Pro starting...") EXCEPT
                              !.pc = "launchPro"]
            /\ launch' = Launched(TRUE, launchConfig)
    /\ UNCHANGED <<folderExists, stdout, filterVars, readerVars, resolverVars, sessionVars>>

\* `await launchPro(...)` resumes. A failure is shown and the status text is
\* cleared; on success the first getPort() is called.
LaunchProReturns ==
    /\ startup.pc = "launchPro"
    /\ launch.result.kind # "none"
    /\ startup' =
          IF launch.result.kind # "success"
          THEN [StatusBar(startup, "undefined") EXCEPT
                   !.pc = "returned", !.final = "cleared", !.hoverProvider = TRUE,
                   !.errorMessage = "Failed to start PHPStan Pro"]
          ELSE [startup EXCEPT !.pc = "getPort"]
    /\ UNCHANGED <<launchVars, filterVars, readerVars, resolverVars, sessionVars>>

\* `!(await pro.value.getPort())` has its answer: without a port the failure is
\* shown and the status text cleared; otherwise the handle is pushed and
\* getPort() is called again
GetPortChecked ==
    /\ startup.pc = "getPort"
    /\ startup' =
          IF ~TruthyPort(GetPort(portFile))
          THEN [StatusBar(startup, "undefined") EXCEPT
                   !.pc = "returned", !.final = "cleared", !.hoverProvider = TRUE,
                   !.errorMessage = "Failed to find PHPStan Pro port"]
          ELSE [startup EXCEPT !.pc = "getPortAgain"]
    /\ UNCHANGED <<launchVars, filterVars, readerVars, resolverVars, sessionVars>>

\* `const port = (await pro.value.getPort())!` has its answer: setPort is sent
\* with it, and isLoggedIn() is called
GetPortRead ==
    /\ startup.pc = "getPortAgain"
    /\ startup' = [startup EXCEPT
          !.pc = "isLoggedIn",
          !.setPort = [sent |-> TRUE, port |-> GetPort(portFile)]]
    /\ UNCHANGED <<launchVars, filterVars, readerVars, resolverVars, sessionVars>>

\* isLoggedIn() has its answer: requireLogin is sent when it is false, then
\* 'PHPStan Pro running', and startPro returns its hover provider
IsLoggedInRead(loggedIn) ==
    /\ startup.pc = "isLoggedIn"
    /\ startup' = [StatusBar(startup, "PHPStan Pro running") EXCEPT
          !.pc = "returned", !.final = "running", !.hoverProvider = TRUE,
          !.requireLogin = ~loggedIn]
    /\ UNCHANGED <<launchVars, filterVars, readerVars, resolverVars, sessionVars>>

----------------------------------------------------------------------------
(* Specifications *)

StartAtRest == startup = IdleStartup

\* The counts of the objects the resolved config holds
DeclaredCounts(rules) ==
    [i \in RuleIdx |-> IF i <= Len(rules) /\ rules[i].hasCount THEN rules[i].count ELSE 0]

InitHeap(rules) ==
    [o \in {0} \cup Passes |->
        IF o = 0 THEN DeclaredCounts(rules) ELSE [i \in RuleIdx |-> 0]]

\* The parts of the state a specification does not exercise
FilterAtRest ==
    /\ ignoreErrors = <<>>
    /\ heap = InitHeap(<<>>)
    /\ pass = [p \in Passes |-> IdlePass]

ReadersAtRest ==
    /\ readers = [path \in CfgPaths |-> NoReader]
    /\ reads = [r \in ReadIds |-> IdleRead]
    /\ statChanged = [path \in CfgPaths |-> FALSE]
    /\ version = [path \in CfgPaths |-> 0]
    /\ reported = [path \in CfgPaths |-> 0]

ReaderAtRest ==
    /\ disk = [path \in CfgPaths |-> <<>>]
    /\ ReadersAtRest

ResolverAtRest == resolver = IdleResolver

LaunchAtRest ==
    /\ launch = IdleLaunch
    /\ folderExists = FALSE
    /\ stdout = EmptyStdout

SessionAtRest ==
    /\ session = [h \in Handles |-> NoSession]
    /\ managers = <<>>
    /\ portFile = NoPortFile

\* One pass at a time over any ignoreErrors list
InitFilter ==
    /\ ignoreErrors \in SeqsUpTo(RuleUniverse, MaxRules)
    /\ heap = InitHeap(ignoreErrors)
    /\ pass = [p \in Passes |-> IdlePass]
    /\ ReaderAtRest /\ ResolverAtRest /\ LaunchAtRest /\ SessionAtRest /\ StartAtRest

NextFilter ==
    \/ \E errors \in DiagnosticLists, fp \in FilePaths : CallFilter(1, errors, fp)
    \/ ResumeFilter(1)
    \/ ReturnFilter(1)

SpecFilter == InitFilter /\ [][NextFilter]_vars

\* Overlapping passes over one config whose rules carry quotas
UniformLists ==
    { [j \in 1..MaxErrors |-> Diagnostic(m, j)] : m \in Messages }

InitPasses ==
    /\ ignoreErrors \in SeqsUpTo(QuotaRules, MaxRules)
    /\ heap = InitHeap(ignoreErrors)
    /\ pass = [p \in Passes |-> IdlePass]
    /\ ReaderAtRest /\ ResolverAtRest /\ LaunchAtRest /\ SessionAtRest /\ StartAtRest

NextPasses ==
    \E p \in Passes :
        \/ \E errors \in UniformLists, fp \in FilePaths : CallFilter(p, errors, fp)
        \/ ResumeFilter(p)
        \/ ReturnFilter(p)

SpecPasses == InitPasses /\ [][NextPasses]_vars

\* The reader of the config file, with overlapping reads, rewrites of the file,
\* watcher callbacks and disposal
ReaderTexts ==
    { <<>>, <<IgnoreEntry(StringRule(U))>>, <<IgnoreEntry(StringRule(V))>> }

InitReader ==
    /\ disk \in { [path \in CfgPaths |-> IF path = ConfigFile THEN t ELSE <<>>] :
                    t \in ReaderTexts }
    /\ ReadersAtRest
    /\ FilterAtRest /\ ResolverAtRest /\ LaunchAtRest /\ SessionAtRest /\ StartAtRest

NextReader ==
    \/ \E r \in ReadIds : ReadConfigFile(r, ConfigFile)
    \/ \E r \in ReadIds : DiskAccess(r)
    \/ \E r \in ReadIds : ReadCompletes(r)
    \/ \E r \in ReadIds : ReadTaken(r)
    \/ \E t \in ReaderTexts : FileChanges(ConfigFile, t)
    \/ WatcherFires(ConfigFile)
    \/ DisposeReader(ConfigFile)

SpecReader == InitReader /\ [][NextReader]_vars

\* The resolver over acyclic include graphs: file n includes files after n only
Arrangements(S) ==
    { s \in SeqsUpTo(S, Cardinality(S)) :
        \A i, j \in 1..Len(s) : i # j => s[i] # s[j] }

CfgRules == { StringRule(U), StringRule(V) }

FileTexts(n) ==
    { [k \in 1..Len(inc) |-> IncludeEntry(inc[k])] \o ign :
        inc \in Arrangements({ <<Names[m + 1]>> : m \in (n + 1)..MaxIncludes }),
        ign \in { <<>> } \cup { <<IgnoreEntry(r)>> : r \in CfgRules } }

RECURSIVE TextsFrom(_)
TextsFrom(n) ==
    IF n > MaxIncludes THEN { <<>> }
    ELSE { <<t>> \o rest : t \in FileTexts(n), rest \in TextsFrom(n + 1) }

InitConfig ==
    /\ disk \in { [path \in CfgPaths |->
                     ts[CHOOSE n \in 0..MaxIncludes : CfgPath(n) = path]] :
                  ts \in { [k \in 0..MaxIncludes |-> t[k + 1]] : t \in TextsFrom(0) } }
    /\ ReadersAtRest
    /\ FilterAtRest /\ ResolverAtRest /\ LaunchAtRest /\ SessionAtRest /\ StartAtRest

NextConfig ==
    \/ \E hasConfigFile \in BOOLEAN : CallResolve(hasConfigFile)
    \/ ReadEntrypoint
    \/ ReadInclude
    \/ ResolveTaken

SpecConfig == InitConfig /\ [][NextConfig]_vars

\* One launch of the pro process
ExitCodes == { "0", "1", "null" }
StderrChunks == { "E1", "E2" }

\* The chunks a launch is driven with where the split of the output is not
\* the point: the readiness marker, a progress marker, other text
WholeChunks ==
    { <<OpenA, OpenB>>, <<Progress(<<1, 2>>, <<5, 0>>, <<2, 4>>)>>, <<Text>> }

InitLaunch ==
    /\ launch = IdleLaunch
    /\ folderExists \in BOOLEAN
    /\ stdout = EmptyStdout
    /\ FilterAtRest /\ ReaderAtRest /\ ResolverAtRest /\ SessionAtRest /\ StartAtRest

NextLaunch ==
    \/ \E onProgress \in BOOLEAN, launchConfig \in BOOLEAN :
          CallLaunch(onProgress, launchConfig)
    \/ \E chunk \in WholeChunks : StdoutData(chunk)
    \/ \E chunk \in StderrChunks : StderrData(chunk)
    \/ ProcError("ENOENT")
    \/ \E code \in ExitCodes : ProcExit(code)
    \/ GraceCheck
    \/ FolderChanges

SpecLaunch == InitLaunch /\ [][NextLaunch]_vars

\* The stdout handler over every split of the output into chunks
NextStdout ==
    \/ \E onProgress \in BOOLEAN : CallLaunch(onProgress, TRUE)
    \/ \E chunk \in Chunks : StdoutData(chunk)
    \/ GraceCheck

SpecStdout == InitLaunch /\ [][NextStdout]_vars

\* startPro from its call to its return, with the process it launched
PortFiles == { NoPortFile } \cup { PortFile(n) : n \in Ports }

NextStart ==
    \/ \E enabled \in BOOLEAN, launchConfig \in BOOLEAN : CallStartPro(enabled, launchConfig)
    \/ \E chunk \in WholeChunks : StdoutData(chunk)
    \/ ProcExit("1")
    \/ GraceCheck
    \/ \E file \in PortFiles : PortFileChanges(file)
    \/ \E h \in Handles : PortLookupDone(h)
    \/ LaunchProReturns
    \/ GetPortChecked
    \/ GetPortRead
    \/ \E loggedIn \in BOOLEAN : IsLoggedInRead(loggedIn)

SpecStart == InitLaunch /\ [][NextStart]_vars

\* Session handles from construction to disposal
InitSession ==
    /\ SessionAtRest
    /\ FilterAtRest /\ ReaderAtRest /\ ResolverAtRest /\ LaunchAtRest /\ StartAtRest

NextSession ==
    \/ \E h \in Handles : Construct(h)
    \/ \E file \in { NoPortFile } \cup { PortFile(n) : n \in Ports } : PortFileChanges(file)
    \/ \E h \in Handles : PortLookupDone(h)
    \/ \E h \in Handles : DisposeSession(h)

SpecSession == InitSession /\ [][NextSession]_vars

----------------------------------------------------------------------------
(* Properties of the filter *)

RECURSIVE IsSubsequence(_, _)
IsSubsequence(s, t) ==
    IF s = <<>> THEN TRUE
    ELSE IF t = <<>> THEN FALSE
    ELSE IF Head(s) = Head(t) THEN IsSubsequence(Tail(s), Tail(t))
    ELSE IsSubsequence(s, Tail(t))

Min(a, b) == IF a < b THEN a ELSE b

IsRule(r) == r.kind \in {"string", "regexp", "object"}
IsQuotaRule(r) == r.kind = "object" /\ r.hasCount
IsScoped(r) == r.kind = "object" /\ (r.hasPath \/ r.hasPaths)

\* The substrings a rule is scoped to: its path and the entries of its paths
ScopedSubstrings(r) ==
    (IF r.hasPath THEN {r.path} ELSE {})
    \cup (IF r.hasPaths THEN {r.paths[k] : k \in 1..Len(r.paths)} ELSE {})

\* A rule with no path/paths applies everywhere; a scoped rule applies iff the
\* file path contains at least one of its scoped substrings
AppliesTo(r, fp) ==
    IsRule(r) /\ (IsScoped(r) => \E sub \in ScopedSubstrings(r) : Includes(fp, sub))

\* The rule's matcher matches the message
MatcherMatches(r, msg) ==
    IsRule(r) /\ matchesStringOrRegexp(msg, r.message) = "true"

Finished(p) == pass[p].pc = "done"
Completed(p) == pass[p].pc = "done" /\ pass[p].status = "ok"
InSel(p, i) == \E k \in 1..Len(pass[p].sel) : pass[p].sel[k] = i
Rules == 1..Len(ignoreErrors)
ErrIdx(p) == 1..Len(pass[p].errors)
\* The diagnostics of pass p that rule i suppressed
SuppressedBy(p, i) == { j \in 1..Len(pass[p].by) : pass[p].by[j] = i }
InOut(p, d) == \E k \in 1..Len(pass[p].out) : pass[p].out[k] = d

\* C1 (part): the result of a pass is a subsequence of its input diagnostics
C1_ResultIsSubsequence ==
    \A p \in Passes : Completed(p) => IsSubsequence(pass[p].out, pass[p].errors)

\* C1: the result of filterBaselineErrorsForFile is a subsequence of the input
\* diagnostics, and every diagnostic whose message no rule applicable to the file
\* matches is present in it
C1_SubsequenceKeepingUnmatched ==
    \A p \in Passes : Completed(p) =>
        /\ IsSubsequence(pass[p].out, pass[p].errors)
        /\ \A j \in ErrIdx(p) :
              (\A i \in Rules :
                  ~(AppliesTo(ignoreErrors[i], pass[p].path)
                    /\ MatcherMatches(ignoreErrors[i], pass[p].errors[j].message)))
              => InOut(p, pass[p].errors[j])

C3_ScopedRuleNeverSuppressesElsewhere ==
    \A p \in Passes : Finished(p) =>
        \A i \in Rules :
            (IsScoped(ignoreErrors[i])
             /\ \A sub \in ScopedSubstrings(ignoreErrors[i]) : ~Includes(pass[p].path, sub))
            => SuppressedBy(p, i) = {}

\* C4: a rule whose count is 0 suppresses no diagnostic, and its count is 0 at
\* the start and at the end of the pass
C4_ZeroCountInert ==
    \A p \in Passes : Finished(p) =>
        \A i \in Rules :
            (IsQuotaRule(ignoreErrors[i]) /\ ignoreErrors[i].count = 0) =>
                /\ SuppressedBy(p, i) = {}
                /\ pass[p].start[i] = 0
                /\ heap[p][i] = 0

\* C4 witness: a pass has completed over a list of two rules that holds a selected
\* rule of count 0 whose matcher matches a diagnostic of the input
C4_Witness ==
    \E p \in Passes, i \in Rules : \E j \in ErrIdx(p) :
        /\ Completed(p)
        /\ Len(ignoreErrors) >= 2
        /\ IsQuotaRule(ignoreErrors[i]) /\ ignoreErrors[i].count = 0
        /\ InSel(p, i)
        /\ MatcherMatches(ignoreErrors[i], pass[p].errors[j].message)
        /\ InOut(p, pass[p].errors[j])

\* C5: every pass starts with each rule's count at the value the config
\* declares, and no pass changes the counts of the config's own objects
C5_PassStartsAtDeclaredCounts ==
    /\ heap[0] = DeclaredCounts(ignoreErrors)
    /\ \A p \in Passes : Finished(p) =>
          \A i \in Rules :
              (IsQuotaRule(ignoreErrors[i]) /\ InSel(p, i)) =>
                  pass[p].start[i] = ignoreErrors[i].count

\* C5 witness: one pass has used up part of a rule's quota and another pass
\* over the same config has run as well
C5_Witness ==
    \E p \in Passes, q \in Passes, i \in Rules :
        /\ p # q /\ Finished(p) /\ Finished(q)
        /\ IsQuotaRule(ignoreErrors[i]) /\ ignoreErrors[i].count > 0
        /\ InSel(p, i) /\ InSel(q, i)
        /\ heap[p][i] < ignoreErrors[i].count
        /\ SuppressedBy(q, i) # {}

IsTopLevelMatcher(r) == r.kind \in {"string", "regexp"}

\* C11: a pass over a list that holds a top-level regular expression or a
\* top-level plain string completes normally, and such a rule suppresses exactly
\* the diagnostics its matcher matches: every diagnostic it matches is absent
\* from the result, and it suppresses no diagnostic it does not match
C11_TopLevelMatcherSuppressesItsMatches ==
    \A p \in Passes : Finished(p) =>
        \A i \in Rules :
            IsTopLevelMatcher(ignoreErrors[i]) =>
                /\ pass[p].status = "ok"
                /\ \A j \in ErrIdx(p) :
                      /\ MatcherMatches(ignoreErrors[i], pass[p].errors[j].message)
                           => ~InOut(p, pass[p].errors[j])
                      /\ (j <= Len(pass[p].by) /\ pass[p].by[j] = i)
                           => MatcherMatches(ignoreErrors[i], pass[p].errors[j].message)

\* C15: a rule with path scoping is selected for the checked file whenever the
\* file's path contains the rule's `path` or an entry of its `paths`
C15_ScopedRuleAppliesWhereAnySubstringIsContained ==
    \A p \in Passes : Finished(p) =>
        \A i \in Rules :
            (IsScoped(ignoreErrors[i])
             /\ \E sub \in ScopedSubstrings(ignoreErrors[i]) : Includes(pass[p].path, sub))
            => InSel(p, i)

----------------------------------------------------------------------------
(* Properties of the config resolver *)

\* The files a config file includes, each resolved against the directory of
\* the file that names it
IncludedBy(path) ==
    { Join(Dirname(path), ParseNeon(disk[path]).includes[k]) :
        k \in 1..Len(ParseNeon(disk[path]).includes) } \cap CfgPaths

RECURSIVE ReachableWithin(_, _)
ReachableWithin(S, n) ==
    IF n = 0 THEN S
    ELSE ReachableWithin(S \cup UNION { IncludedBy(path) : path \in S }, n - 1)

\* The root config file and every file reachable from it through includes
Reachable == ReachableWithin({ConfigFile}, MaxIncludes)

InResult(rule) == \E k \in 1..Len(resolver.result) : resolver.result[k] = rule

\* C6: the resolved ignore set holds the ignore rules of the root config file and
\* of every config file reachable from it through includes, transitively
C6_ResolvedHoldsRulesOfAllReachable ==
    (resolver.pc = "done" /\ resolver.configFile) =>
        \A path \in Reachable :
            \A k \in 1..Len(ParseNeon(disk[path]).ignoreErrors) :
                InResult(ParseNeon(disk[path]).ignoreErrors[k])

----------------------------------------------------------------------------
(* Properties of launchPro *)

\* C7 as stated: once a check after the grace period has found the folder
\* missing, the result of launchPro is the tmp-folder error and holds no handle
C7_MissingFolderGivesTmpFolderError ==
    launch.missing => launch.result = ErrTmpFolder

\* C7 (amended): once a check after the grace period has found the folder missing
\* while the result of launchPro was still undecided, the result is the
\* tmp-folder error and holds no handle, whatever happens afterwards
C7_MissingFolderFirstGivesTmpFolderError ==
    launch.missingFirst => (launch.result = ErrTmpFolder /\ launch.result.handle = 0)

\* C7 witness: the check found the folder missing, launchPro resolved to the
\* tmp-folder error, and the process exited afterwards
C7_Witness ==
    /\ launch.missingFirst
    /\ launch.result = ErrTmpFolder
    /\ launch.exited
    /\ launch.timers = 0

\* A stdout chunk has just been handled
ChunkHandled == launch'.chunks = launch.chunks + 1

\* C12: with a progress callback registered, the handler of a chunk that holds
\* progress markers calls the callback exactly once, with done, total and
\* percentage of the last marker of the chunk; the handler of a chunk without
\* progress marker does not call it
C12_OneCallPerChunkWithLastMarker ==
    [][(launch.onProgress /\ ChunkHandled) =>
          IF stdout'.markers > 0
          THEN /\ launch'.progressCalls = launch.progressCalls + 1
               /\ launch'.lastProgress = [done |-> ParseInt(stdout'.last.done),
                                          total |-> ParseInt(stdout'.last.total),
                                          percentage |-> ParseInt(stdout'.last.pct)]
          ELSE /\ launch'.progressCalls = launch.progressCalls
               /\ launch'.lastProgress = launch.lastProgress]_vars

\* C12 witness: the first chunk held two progress markers; the callback has been
\* called once, with 50/50 100% of the last of them
C12_Witness ==
    /\ launch.onProgress
    /\ launch.chunks = 1
    /\ stdout.markers = 2
    /\ stdout.last = Progress(<<5, 0>>, <<5, 0>>, <<1, 0, 0>>)
    /\ launch.progressCalls = 1
    /\ launch.lastProgress = [done |-> 50, total |-> 50, percentage |-> 100]

\* C13: the handler of every chunk that holds the readiness marker starts the
\* grace period that leads to the check of the config directory
C13_ReadinessChunkStartsTheCheck ==
    [][(ChunkHandled /\ stdout'.lineReady) => launch'.armed = launch.armed + 1]_vars

\* C14: once the stdout written so far holds the readiness marker, however it
\* was split into chunks, the grace period that leads to the check of the
\* config directory has been started. (Stated for launches without progress
\* callback, where every chunk is tested for the marker.)
C14_ReadinessInStreamStartsTheCheck ==
    (~launch.onProgress /\ stdout.ready) => launch.armed > 0

\* An exit or an error event has just been handled
ExitHandled == launch'.exited /\ ~launch.exited
ErrorHandled == launch'.errored /\ ~launch.errored

\* C16 as stated: every exit or error event that comes before a readiness
\* marker has been acted on leaves launchPro's result an error without handle,
\* holding the exit code or the error message together with all stderr text
\* received before the event
C16_EventBeforeReadinessGivesErrorWithStderr ==
    [][(launch.armed = 0 /\ (ExitHandled \/ ErrorHandled)) =>
          /\ launch'.result.kind \in {"exited", "failedToLaunch"}
          /\ launch'.result.handle = 0
          /\ launch'.result.stderr = launch.stderr]_vars

\* C16 (amended): the first exit or error event, when it comes before a
\* readiness marker has been acted on, makes launchPro's result an error without
\* handle that holds the event's exit code or error message together with all
\* stderr text received before it; no later event changes that result
C16_FirstEventBeforeReadinessGivesErrorWithStderr ==
    [][/\ (launch.armed = 0 /\ ~launch.exited /\ ~launch.errored /\ ExitHandled) =>
            launch'.result =
                [kind |-> "exited",
                 code |-> IF launch'.exitCode = "null" THEN "?" ELSE launch'.exitCode,
                 stderr |-> launch.stderr, handle |-> 0]
       /\ (launch.armed = 0 /\ ~launch.exited /\ ~launch.errored /\ ErrorHandled) =>
            launch'.result =
                [kind |-> "failedToLaunch", code |-> launch'.errorMessage,
                 stderr |-> launch.stderr, handle |-> 0]
       /\ launch.result.kind \in {"exited", "failedToLaunch"} =>
            launch'.result = launch.result]_vars

\* C16 witness: the process wrote to stderr and exited with code 1 before any
\* readiness marker; launchPro's result holds the code and the stderr text, and
\* stderr text, a readiness marker and its check came afterwards
C16_Witness ==
    /\ launch.exited /\ launch.exitCode = "1"
    /\ launch.result = ErrExit("1", <<"E1">>)
    /\ launch.stderr = <<"E1", "E2">>
    /\ launch.armed > 0 /\ launch.timers = 0

\* The session handles constructed so far
ConstructedHandles == { h \in Handles : session[h].constructed }

\* C17: launchPro constructs at most one session handle per launch, and only
\* the one its result holds
C17_OnlyTheReturnedHandleIsConstructed ==
    /\ Cardinality(ConstructedHandles) <= 1
    /\ \A h \in ConstructedHandles : launch.result = Success(h)

----------------------------------------------------------------------------
(* Properties of startPro *)

\* C18: once startPro has sent its final status ('PHPStan Pro running', or the
\* cleared text), the status bar keeps it: no 'PHPStan Pro starting N/M' status
\* is sent afterwards
C18_NoProgressStatusAfterFinalStatus ==
    startup.final # "none" =>
        startup.statusBar.text = (IF startup.final = "running"
                                  THEN "PHPStan Pro running" ELSE "undefined")

\* C19: every setPort notification carries a non-null port, and 'PHPStan Pro
\* running' is reported only together with such a notification
C19_SetPortCarriesAPort ==
    /\ startup.setPort.sent => ~startup.setPort.port.null
    /\ startup.final = "running" =>
          (startup.setPort.sent /\ ~startup.setPort.port.null)

----------------------------------------------------------------------------
(* Properties of the cached config reader *)

\* C8: a read that starts after the change watcher has fired returns content
\* that was on disk after the change the watcher reported, never older content
C8_ReadAfterFiringReturnsFreshContent ==
    \A r \in ReadIds :
        reads[r].pc = "returned" => reads[r].version >= reads[r].reportedAtCall

\* The reads of a path for which fsPromises.readFile is under way
FetchesUnderWay(path) ==
    { r \in ReadIds : reads[r].path = path /\ reads[r].pc \in {"fetching", "fetched"} }

\* C9: overlapping reads of one config path issue at most one file read
C9_OverlappingReadsShareOneFetch ==
    \A path \in CfgPaths : Cardinality(FetchesUnderWay(path)) <= 1

\* C20: a CachedFileReader registers its change-watcher callback at most once:
\* whatever reads and cache invalidations have happened, at most one callback
\* is registered for its path
C20_WatcherCallbackRegisteredAtMostOnce ==
    \A path \in CfgPaths : readers[path].listeners <= 1

----------------------------------------------------------------------------
(* Properties of the session handle *)

\* C10: once dispose() has been called on a session handle, every error manager
\* the session has created is disposed
C10_DisposedSessionHasNoLiveManager ==
    \A h \in Handles :
        session[h].disposeCalls > 0 =>
            \A m \in 1..Len(managers) :
                managers[m].owner = h => managers[m].disposed

====
